---- MODULE Spec2Model ----
(***************************************************************************)
(* Tower Game Blender pipeline: the batch FBX exporter                     *)
(* (blender/scripts/batch_export.py) and the model validator               *)
(* (blender/scripts/validate_models.py), as one state machine over the     *)
(* models directory, the export directory, the reports directory and       *)
(* Blender's single currently loaded scene.                                *)
(***************************************************************************)
EXTENDS Integers, Sequences, FiniteSets, TLC

\* ------------------------------------------------------------------ bounds
\* The clock counts ticks; MaxTime is its last value in the export runs.
MaxTime == 1
\* Ticks in one second (strftime's %S drops what is below a second).
TicksPerSecond == 2
\* Last value of the clock where validation reports are written.
MaxReportTime == 3
\* Longest enumeration of a validation run.
MaxValidated == 2

\* ----------------------------------------------------------- text values
\* Python str values are sequences of one-character strings.
UpperChars ==
  <<"A","B","C","D","E","F","G","H","I","J","K","L","M",
    "N","O","P","Q","R","S","T","U","V","W","X","Y","Z">>

LowerChars ==
  <<"a","b","c","d","e","f","g","h","i","j","k","l","m",
    "n","o","p","q","r","s","t","u","v","w","x","y","z">>

\* str.lower() on one character.
lower_char(c) ==
  IF \E i \in 1..Len(UpperChars) : UpperChars[i] = c
  THEN LowerChars[CHOOSE i \in 1..Len(UpperChars) : UpperChars[i] = c]
  ELSE c

\* str.lower()
str_lower(s) == [i \in 1..Len(s) |-> lower_char(s[i])]

\* Python's `key in s` on str: key occurs as a contiguous substring of s.
str_contains(s, key) ==
  \E i \in 0..(Len(s) - Len(key)) : SubSeq(s, i + 1, i + Len(key)) = key

\* str.startswith(prefix)
str_startswith(s, prefix) ==
  /\ Len(prefix) <= Len(s)
  /\ SubSeq(s, 1, Len(prefix)) = prefix

\* pathlib's PurePath.stem: the final component without its last suffix.
path_stem(name) ==
  LET dots == {i \in 2..Len(name) : name[i] = "."}
  IN  IF dots = {} \/ name[Len(name)] = "."
      THEN name
      ELSE SubSeq(name, 1, (CHOOSE i \in dots : \A j \in dots : j <= i) - 1)

\* ------------------------------------------------------ category classifier
\* ASSET_CATEGORIES, in the dict's insertion order (the order .items() yields).
ASSET_CATEGORIES ==
  << [key |-> <<"c","h","a","r","a","c","t","e","r","s">>, category |-> "Characters"],
     [key |-> <<"w","e","a","p","o","n","s">>,             category |-> "Weapons"],
     [key |-> <<"a","r","m","o","r">>,                     category |-> "Armor"],
     [key |-> <<"m","o","n","s","t","e","r","s">>,         category |-> "Monsters"],
     [key |-> <<"e","n","v","i","r","o","n","m","e","n","t">>, category |-> "Environment"],
     [key |-> <<"p","r","o","p","s">>,                     category |-> "Props"],
     [key |-> <<"v","f","x">>,                             category |-> "VFX"],
     [key |-> <<"u","i">>,                                 category |-> "UI"] >>

\* The test of one table entry inside get_category's loop.
category_key_matches(key, name_lower, parent_lower) ==
  str_contains(name_lower, key) \/ str_contains(parent_lower, key)

\* The loop keeping the last matching entry instead of returning at the first.
RECURSIVE category_loop_last_wins(_, _, _)
category_loop_last_wins(i, name_lower, parent_lower) ==
  IF i > Len(ASSET_CATEGORIES)
  THEN "Misc"
  ELSE LET later == category_loop_last_wins(i + 1, name_lower, parent_lower) IN
       IF later # "Misc" THEN later
       ELSE IF category_key_matches(ASSET_CATEGORIES[i].key, name_lower, parent_lower)
            THEN ASSET_CATEGORIES[i].category
            ELSE "Misc"

\* get_category's for loop from table position i on; "Misc" after the last entry.
RECURSIVE category_loop(_, _, _)
category_loop(i, name_lower, parent_lower) ==
  IF i > Len(ASSET_CATEGORIES)
  THEN "Misc"
  ELSE IF category_key_matches(ASSET_CATEGORIES[i].key, name_lower, parent_lower)
       THEN ASSET_CATEGORIES[i].category
       ELSE category_loop(i + 1, name_lower, parent_lower)

\* get_category(filepath): filepath is [parent |-> directory name, name |-> file name].
get_category(filepath) ==
  category_loop(1, str_lower(path_stem(filepath.name)), str_lower(filepath.parent))

\* ------------------------------------------------------- the models directory
\* The .blend files that may lie under MODELS_DIR: parent directory name and
\* file name of each.
BlendPaths ==
  << [parent |-> <<"W","e","a","p","o","n","s">>,
      name   |-> <<"S","w","o","r","d",".","b","l","e","n","d">>],
     [parent |-> <<"g","e","a","r">>,
      name   |-> <<"A","r","m","o","r","_","U","I",".","b","l","e","n","d">>],
     [parent |-> <<"p","r","o","p","s">>,
      name   |-> <<"b","u","i","l","d","_","v","f","x",".","b","l","e","n","d">>],
     [parent |-> <<"m","o","d","e","l","s">>,
      name   |-> <<"r","o","c","k",".","b","l","e","n","d">>],
     [parent |-> <<"o","l","d">>,
      name   |-> <<"r","o","c","k",".","b","l","e","n","d">>],
     [parent |-> <<"m","o","d","e","l","s">>,
      name   |-> <<"g","o","l","e","m",".","v","2",".","b","l","e","n","d">>],
     [parent |-> <<"C","h","a","r","a","c","t","e","r","s">>,
      name   |-> <<"H","e","r","o",".","b","l","e","n","d">>] >>

Files == DOMAIN BlendPaths

\* ------------------------------------------------------- the scenes on disk
\* Lengths are in units of 1/10000: a scale of 1.0 is 10000, a rotation of
\* 0.001 rad is 10.
EXPECTED_SCALE == <<10000, 10000, 10000>>
SCALE_TOLERANCE == 10
MAX_VERTICES_LOD0 == 100000
MAX_BONES == 256

\* A mesh datablock: vertices is len(mesh.vertices) (the vertices are
\* 0..vertices-1), polygons holds len(p.vertices) of each polygon, edges the
\* two vertex indices of each edge, uv_layers is len(mesh.uv_layers).
Quad == [vertices |-> 4, polygons |-> <<4>>,
         edges |-> << <<0, 1>>, <<1, 2>>, <<2, 3>>, <<3, 0>> >>, uv_layers |-> 1]

MeshObject(name, scale, rotation, mesh) ==
  [type |-> "MESH", name |-> name, scale |-> scale, rotation_euler |-> rotation,
   data |-> mesh]

\* An armature: bones holds, for each bone, the index of its parent (0: None).
ArmatureObject(name, bones) ==
  [type |-> "ARMATURE", name |-> name, data |-> [bones |-> bones]]

\* A chain of n bones under one root.
Chain(n) == [i \in 1..n |-> i - 1]

NoRotation == <<0, 0, 0>>

\* bpy.data after open_mainfile of each file: its objects and materials.
BlendScenes ==
  << \* 1: one clean static mesh, one node material
     [objects |-> << MeshObject(<<"S","M","_","S","w","o","r","d">>,
                                EXPECTED_SCALE, NoRotation, Quad) >>,
      materials |-> << [name |-> "Steel", use_nodes |-> TRUE] >>],
     \* 2: advisory findings only
     [objects |-> << MeshObject(<<"A","r","m","o","r">>, <<10000, 10005, 9995>>,
                                <<0, 15708, 0>>,
                                [vertices |-> 7, polygons |-> <<5, 4, 3>>,
                                 edges |-> << <<0, 1>>, <<1, 2>>, <<2, 3>>, <<3, 4>>, <<4, 0>> >>,
                                 uv_layers |-> 3]) >>,
      materials |-> << [name |-> "Leather", use_nodes |-> FALSE] >>],
     \* 3: an empty and a camera, and a material that does not use nodes
     [objects |-> << [type |-> "EMPTY", name |-> <<"R","o","o","t">>],
                     [type |-> "CAMERA", name |-> <<"C","a","m">>] >>,
      materials |-> << [name |-> "Glow", use_nodes |-> FALSE] >>],
     \* 4: a mesh without UV map and with unapplied scale
     [objects |-> << MeshObject(<<"S","M","_","R","o","c","k">>, <<20000, 10000, 5000>>,
                                NoRotation,
                                [vertices |-> 4, polygons |-> <<4>>,
                                 edges |-> << <<0, 1>>, <<1, 2>>, <<2, 3>>, <<3, 0>> >>,
                                 uv_layers |-> 0]) >>,
      materials |-> << >>],
     \* 5: a lone light, no material
     [objects |-> << [type |-> "LIGHT", name |-> <<"S","u","n">>] >>, materials |-> << >>],
     \* 6: a rig over the bone limit and two meshes over the vertex limit together
     [objects |-> << ArmatureObject(<<"S","K","_","G","o","l","e","m">>, Chain(257)),
                     MeshObject(<<"S","K","_","B","o","d","y">>, EXPECTED_SCALE, NoRotation,
                                [vertices |-> 60000, polygons |-> <<4, 4>>,
                                 edges |-> << <<0, 1>>, <<1, 2>> >>, uv_layers |-> 2]),
                     MeshObject(<<"S","K","_","H","e","a","d">>, EXPECTED_SCALE, NoRotation,
                                [vertices |-> 40001, polygons |-> <<3>>,
                                 edges |-> << <<0, 1>> >>, uv_layers |-> 1]) >>,
      materials |-> << [name |-> "Stone", use_nodes |-> TRUE],
                       [name |-> "Moss", use_nodes |-> TRUE] >>],
     \* 7: rigs at the bone limit, without bones, and with two roots
     [objects |-> << ArmatureObject(<<"S","K","_","H","e","r","o">>, Chain(256)),
                     ArmatureObject(<<"S","K","_","N","o","n","e">>, << >>),
                     ArmatureObject(<<"S","K","_","T","w","i","n">>, <<0, 0, 1>>),
                     MeshObject(<<"S","K","_","H","e","r","o","B","o","d","y">>,
                                EXPECTED_SCALE, NoRotation, Quad) >>,
      materials |-> << [name |-> "Skin", use_nodes |-> TRUE] >>] >>

\* Lines 198-200 of main for each file: category, fbx_name and
\* export_path = EXPORT_DIR / category / fbx_name, kept as <<category, stem>>.
ExportPathTable ==
  [f \in Files |-> <<get_category(BlendPaths[f]), path_stem(BlendPaths[f].name)>>]

export_path_of(f) == ExportPathTable[f]

\* The files of the directories with several files: two that export to the
\* same path (Misc/rock.fbx) and one that does not.
CoreFiles == {1, 4, 5}

\* Sequences of distinct files of S.
DistinctSeqs(S) ==
  UNION {{s \in [1..k -> S] : \A i, j \in 1..k : i # j => s[i] # s[j]} :
         k \in 0..Cardinality(S)}

\* What rglob("*.blend") may enumerate: any one file, or the core files in
\* any order.
Enumerations == {<<f>> : f \in Files} \cup DistinctSeqs(CoreFiles)

\* A path with no file at it, a name not yet bound, a run that never happened.
NoFile == [missing |-> TRUE]
NoResults == [unbound |-> TRUE]

\* What bpy.data holds: Blender's startup scene, the empty scene
\* read_homefile(use_empty=True) leaves, or the contents of a .blend file.
StartupScene == [kind |-> "startup"]
EmptyScene == [kind |-> "empty"]
LoadedScene(f) == [kind |-> "file", file |-> f]

VARIABLES
  blend_files,   \* list(MODELS_DIR.rglob("*.blend")), in enumeration order
  src_mtime,     \* blend_path.stat().st_mtime of each source file
  outputs,       \* the FBX files under EXPORT_DIR: export path -> st_mtime
  now,           \* the clock that stamps files and reports, in seconds
  pc,            \* where the running script is: idle, export, validate, done, returned
  idx,           \* position of the for loop in blend_files
  results,       \* main's results dict (NoResults before it is created)
  scene,         \* Blender's currently loaded scene
  ops,           \* bpy operators and directory creations of the latest loop iteration
  report_file,   \* EXPORT_DIR/export_report.json, or NoFile
  validator,     \* the ModelValidator: self.results and self.total_issues
  report_dir,    \* the files of REPORT_DIR: timestamp in the file name -> contents
  hist           \* history: what the runs so far saw (not program state)

vars == <<blend_files, src_mtime, outputs, now, pc, idx, results, scene, ops,
          report_file, validator, report_dir, hist>>

\* ------------------------------------------------------------ staleness gate
\* The gate with `>=` in place of `>`: an FBX as old as its source counts as
\* up to date.
up_to_date_or_equal(f) ==
  /\ export_path_of(f) \in DOMAIN outputs
  /\ outputs[export_path_of(f)] >= src_mtime[f]

\* The gate with the two timestamps swapped.
up_to_date_swapped(f) ==
  /\ export_path_of(f) \in DOMAIN outputs
  /\ src_mtime[f] > outputs[export_path_of(f)]

\* Lines 203-206 of main: the FBX exists and is newer than the .blend.
up_to_date(f) ==
  /\ export_path_of(f) \in DOMAIN outputs
  /\ outputs[export_path_of(f)] > src_mtime[f]

\* The state before the first run, the models directory holding one of `files`.
InitWith(files) ==
  /\ blend_files \in files
  /\ src_mtime = [f \in Files |-> 0]
  /\ outputs = << >>
  /\ now = 0
  /\ pc = "idle"
  /\ idx = 1
  /\ results = NoResults
  /\ scene = StartupScene
  /\ ops = <<>>
  /\ report_file = NoFile
  /\ validator = NoResults
  /\ report_dir = << >>
  /\ hist = [start |-> 0, fresh |-> FALSE, last |-> "none", rerun |-> "none"]

Init == InitWith(Enumerations)

\* No script is running.
Idle == pc \in {"idle", "done", "returned", "validated", "crashed"}

\* Time passes, up to `last`.
TickTo(last) ==
  /\ now < last
  /\ now' = now + 1
  /\ UNCHANGED <<blend_files, src_mtime, outputs, pc, idx, results, scene, ops,
                 report_file, validator, report_dir, hist>>

Tick == TickTo(MaxTime)

\* The artist saves a source file between two runs.
TouchSource ==
  /\ Idle
  /\ \E i \in 1..Len(blend_files) :
       src_mtime' = [src_mtime EXCEPT ![blend_files[i]] = now]
  /\ hist' = [hist EXCEPT !.last = "none"]
  /\ UNCHANGED <<blend_files, outputs, now, pc, idx, results, scene, ops,
                 report_file, validator, report_dir>>

\* main() without the early return.
StartExport_no_return ==
  /\ Idle
  /\ ops' = << >>
  /\ idx' = 1
  /\ hist' = [hist EXCEPT
                !.start = now,
                !.fresh = \A i \in 1..Len(blend_files) : src_mtime[blend_files[i]] < now,
                !.rerun = hist.last]
  /\ pc' = "export"
  /\ results' = [exported |-> 0, failed |-> 0, skipped |-> 0, files |-> <<>>]
  /\ UNCHANGED <<blend_files, src_mtime, outputs, now, scene, report_file,
                 validator, report_dir>>

\* main() up to the loop: discover the files, return early when there are none,
\* else create the results dict.
StartExport ==
  /\ Idle
  /\ ops' = <<>>
  /\ idx' = 1
  /\ hist' = [hist EXCEPT
                !.start = now,
                !.fresh = \A i \in 1..Len(blend_files) : src_mtime[blend_files[i]] < now,
                !.rerun = hist.last]
  /\ IF Len(blend_files) = 0
     THEN /\ pc' = "returned"
          /\ results' = NoResults
     ELSE /\ pc' = "export"
          /\ results' = [exported |-> 0, failed |-> 0, skipped |-> 0, files |-> <<>>]
  /\ UNCHANGED <<blend_files, src_mtime, outputs, now, scene, report_file,
                 validator, report_dir>>

\* The file the for loop is at.
cur == blend_files[idx]

InLoop == pc = "export" /\ idx <= Len(blend_files)

\* One call made while file f, bound for export path p, is processed, and the
\* same call when it raised an exception.
Op(name, f, p) == [op |-> name, file |-> f, path |-> p, raised |-> FALSE]
Raised(call) == [call EXCEPT !.raised = TRUE]

\* The export directory after the exporter wrote (or rewrote) the file at p.
written(p) == (p :> now) @@ outputs

\* export_blend_to_fbx(blend_path, export_path) returning ret: the try block
\* runs clean_scene, open_mainfile, ensure_dir and the FBX exporter in that
\* order; whichever raises first sends control to the except clause, which
\* returns False. A failed exporter may or may not leave a file behind.
export_blend_to_fbx(f, ret) ==
  LET p == export_path_of(f)
      c1 == Op("read_homefile", f, p)
      c2 == Op("open_mainfile", f, p)
      c3 == Op("ensure_dir", f, p)
      c4 == Op("export_fbx", f, p)
  IN  \/ /\ ret = FALSE                        \* clean_scene raises
         /\ ops' = <<Raised(c1)>>
         /\ scene' \in {scene, EmptyScene}
         /\ outputs' = outputs
      \/ /\ ret = FALSE                        \* open_mainfile raises
         /\ ops' = <<c1, Raised(c2)>>
         /\ scene' = EmptyScene
         /\ outputs' = outputs
      \/ /\ ret = FALSE                        \* ensure_dir raises
         /\ ops' = <<c1, c2, Raised(c3)>>
         /\ scene' = LoadedScene(f)
         /\ outputs' = outputs
      \/ /\ ret = FALSE                        \* the exporter raises
         /\ ops' = <<c1, c2, c3, Raised(c4)>>
         /\ scene' = LoadedScene(f)
         /\ outputs' \in {outputs, written(p)}
      \/ /\ ret = TRUE                         \* the file is written
         /\ ops' = <<c1, c2, c3, c4>>
         /\ scene' = LoadedScene(f)
         /\ outputs' = written(p)

\* The skip branch entered after the scene was cleared for the file.
ExportSkip_after_clean ==
  /\ InLoop
  /\ up_to_date(cur)
  /\ results' = [results EXCEPT !.skipped = @ + 1]
  /\ idx' = idx + 1
  /\ ops' = << Op("read_homefile", cur, export_path_of(cur)) >>
  /\ scene' = EmptyScene
  /\ UNCHANGED <<blend_files, src_mtime, outputs, now, pc,
                 report_file, validator, report_dir, hist>>

\* Loop body, lines 202-209: the FBX is up to date, count a skip and continue.
ExportSkip ==
  /\ InLoop
  /\ up_to_date(cur)
  /\ results' = [results EXCEPT !.skipped = @ + 1]
  /\ idx' = idx + 1
  /\ ops' = << >>
  /\ UNCHANGED <<blend_files, src_mtime, outputs, now, pc, scene,
                 report_file, validator, report_dir, hist>>

\* The loop body without the try/except of export_blend_to_fbx: an exception
\* leaves main.
ExportFile_unguarded ==
  /\ InLoop
  /\ ~up_to_date(cur)
  /\ \E ret \in BOOLEAN :
       /\ export_blend_to_fbx(cur, ret)
       /\ IF ret
          THEN /\ results' = [results EXCEPT !.exported = @ + 1,
                                             !.files = Append(@, export_path_of(cur))]
               /\ idx' = idx + 1
               /\ pc' = pc
          ELSE /\ results' = results
               /\ idx' = idx
               /\ pc' = "crashed"
  /\ UNCHANGED <<blend_files, src_mtime, now, report_file, validator, report_dir, hist>>

\* The loop body recording the output path before the outcome is known.
ExportFile_path_first ==
  /\ InLoop
  /\ ~up_to_date(cur)
  /\ \E ret \in BOOLEAN :
       /\ export_blend_to_fbx(cur, ret)
       /\ results' = IF ret
                     THEN [results EXCEPT !.exported = @ + 1,
                                          !.files = Append(@, export_path_of(cur))]
                     ELSE [results EXCEPT !.failed = @ + 1,
                                          !.files = Append(@, export_path_of(cur))]
  /\ idx' = idx + 1
  /\ UNCHANGED <<blend_files, src_mtime, now, pc, report_file, validator, report_dir, hist>>

\* Loop body, lines 211-217: export the file and count the outcome.
ExportFile ==
  /\ InLoop
  /\ ~up_to_date(cur)
  /\ \E ret \in BOOLEAN :
       /\ export_blend_to_fbx(cur, ret)
       /\ results' = IF ret
                     THEN [results EXCEPT !.exported = @ + 1,
                                          !.files = Append(@, export_path_of(cur))]
                     ELSE [results EXCEPT !.failed = @ + 1]
  /\ idx' = idx + 1
  /\ UNCHANGED <<blend_files, src_mtime, now, pc, report_file, validator, report_dir, hist>>

\* The report dict main builds after the loop.
export_report ==
  [timestamp   |-> now,
   total_files |-> Len(blend_files),
   exported    |-> results.exported,
   failed      |-> results.failed,
   skipped     |-> results.skipped,
   files       |-> results.files]

\* Lines 219-231: write export_report.json.
Finalize ==
  /\ pc = "export"
  /\ idx > Len(blend_files)
  /\ report_file' = export_report
  /\ pc' = "done"
  /\ hist' = [hist EXCEPT
                !.last = IF results.exported # Len(blend_files) THEN "none"
                         ELSE IF hist.fresh THEN "all_exported_fresh"
                         ELSE "all_exported"]
  /\ UNCHANGED <<blend_files, src_mtime, outputs, now, idx, results, scene, ops,
                 validator, report_dir>>

\* ------------------------------------------------------------ the validator
Cond(c, msg) == IF c THEN <<msg>> ELSE << >>

Abs(x) == IF x < 0 THEN -x ELSE x

\* batch_export.validate_model(filepath) from object i on, bpy.data holding
\* `objects`. main never calls it: no action of the exporter uses it.
RECURSIVE validate_model_loop(_, _, _)
validate_model_loop(objects, i, acc) ==
  IF i > Len(objects) THEN acc
  ELSE LET obj == objects[i] IN
       validate_model_loop(objects, i + 1,
         IF obj.type = "MESH"
         THEN [stats |-> [acc.stats EXCEPT
                            !.objects = @ + 1,
                            !.vertices = @ + obj.data.vertices,
                            !.faces = @ + Len(obj.data.polygons)],
               issues |-> acc.issues
                 \o Cond(\E k \in 1..Len(obj.data.polygons) : obj.data.polygons[k] > 4,
                         <<"ngons found", obj.name,
                           Cardinality({k \in 1..Len(obj.data.polygons) : obj.data.polygons[k] > 4})>>)
                 \o Cond(obj.data.uv_layers = 0, <<"No UV map", obj.name>>)
                 \o Cond(\E k \in 1..3 : Abs(obj.scale[k] - 10000) > 10,
                         <<"Non-uniform scale", obj.name, obj.scale>>)]
         ELSE IF obj.type = "ARMATURE"
         THEN [acc EXCEPT !.stats.armatures = @ + 1]
         ELSE acc)

validate_model(f, data) ==
  LET r == validate_model_loop(data.objects, 1,
             [stats |-> [vertices |-> 0, faces |-> 0, objects |-> 0, armatures |-> 0],
              issues |-> << >>])
  IN  [file |-> f, stats |-> r.stats, issues |-> r.issues, valid |-> Len(r.issues) = 0]

\* The report dict validate_file starts from (lines 40-53).
new_report(f) ==
  [file |-> BlendPaths[f].name, path |-> f,
   objects |-> << >>, issues |-> << >>, warnings |-> << >>,
   stats |-> [total_vertices |-> 0, total_faces |-> 0, mesh_objects |-> 0,
              armatures |-> 0, materials |-> 0]]

\* "{s:.3f}": a scale rounded to thousandths.
fmt3(s) == (s + 5) \div 10

\* The issues of the applied-scale check, axis by axis.
RECURSIVE scale_issues(_, _)
scale_issues(obj, i) ==
  IF i > Len(EXPECTED_SCALE) THEN << >>
  ELSE Cond(Abs(obj.scale[i] - EXPECTED_SCALE[i]) > SCALE_TOLERANCE,
            <<"Scale", obj.name, <<"X", "Y", "Z">>[i], fmt3(obj.scale[i]), EXPECTED_SCALE[i]>>)
       \o scale_issues(obj, i + 1)

\* ModelValidator._validate_mesh(obj, report): the report after the call.
validate_mesh(obj, report) ==
  LET mesh == obj.data
      info == [name |-> obj.name, vertices |-> mesh.vertices,
               faces |-> Len(mesh.polygons), edges |-> Len(mesh.edges)]
      ngons == Cardinality({i \in 1..Len(mesh.polygons) : mesh.polygons[i] > 4})
      vertex_used == UNION {{mesh.edges[i][1], mesh.edges[i][2]} : i \in 1..Len(mesh.edges)}
      loose == mesh.vertices - Cardinality(vertex_used)
      named == \E pre \in {<<"S","M","_">>, <<"S","K","_">>, <<"S","_">>} :
                 str_startswith(obj.name, pre)
  IN  [report EXCEPT
         !.stats.mesh_objects = @ + 1,
         !.stats.total_vertices = @ + mesh.vertices,
         !.stats.total_faces = @ + Len(mesh.polygons),
         !.objects = Append(@, info),
         !.issues = @ \o scale_issues(obj, 1)
                      \o Cond(mesh.uv_layers = 0, <<"Missing UV map", obj.name>>),
         !.warnings = @ \o Cond(\E i \in 1..3 : Abs(obj.rotation_euler[i]) > 10,
                                 <<"Has unapplied rotation", obj.name>>)
                        \o Cond(mesh.uv_layers > 2, <<"UV maps", obj.name, mesh.uv_layers>>)
                        \o Cond(ngons > 0, <<"ngons", obj.name, ngons>>)
                        \o Cond(loose > 0, <<"loose vertices", obj.name, loose>>)
                        \o Cond(~named, <<"Consider UE5 naming", obj.name>>)]

\* The bone check firing at the limit itself.
validate_armature_at_limit(obj, report) ==
  LET armature == obj.data
      bone_count == Len(armature.bones)
      root_bones == Cardinality({i \in 1..bone_count : armature.bones[i] = 0})
  IN  [report EXCEPT
         !.stats.armatures = @ + 1,
         !.issues = @ \o Cond(bone_count >= MAX_BONES,
                               <<"bones exceeds UE5 limit", obj.name, bone_count, MAX_BONES>>)
                      \o Cond(bone_count = 0, <<"Armature has no bones", obj.name>>),
         !.warnings = @ \o Cond(root_bones > 1,
                                 <<"Multiple root bones", obj.name, root_bones>>)]

\* ModelValidator._validate_armature(obj, report): the report after the call.
validate_armature(obj, report) ==
  LET armature == obj.data
      bone_count == Len(armature.bones)
      root_bones == Cardinality({i \in 1..bone_count : armature.bones[i] = 0})
  IN  [report EXCEPT
         !.stats.armatures = @ + 1,
         !.issues = @ \o Cond(bone_count > MAX_BONES,
                               <<"bones exceeds UE5 limit", obj.name, bone_count, MAX_BONES>>)
                      \o Cond(bone_count = 0, <<"Armature has no bones", obj.name>>),
         !.warnings = @ \o Cond(root_bones > 1,
                                 <<"Multiple root bones", obj.name, root_bones>>)]

\* The loop over bpy.data.objects (lines 55-59) from object i on.
RECURSIVE validate_objects(_, _, _)
validate_objects(objects, i, report) ==
  IF i > Len(objects) THEN report
  ELSE validate_objects(objects, i + 1,
         IF objects[i].type = "MESH" THEN validate_mesh(objects[i], report)
         ELSE IF objects[i].type = "ARMATURE" THEN validate_armature(objects[i], report)
         ELSE report)

\* The loop over bpy.data.materials (lines 62-65) from material i on.
RECURSIVE validate_materials(_, _, _)
validate_materials(materials, i, report) ==
  IF i > Len(materials) THEN report
  ELSE validate_materials(materials, i + 1,
         [report EXCEPT
            !.stats.materials = @ + 1,
            !.warnings = @ \o Cond(~materials[i].use_nodes,
                                    <<"not using nodes", materials[i].name>>)])

\* The valid flag demanding that there be no warning either.
overall_checks_no_warnings(report) ==
  LET checked == [report EXCEPT
                    !.issues = @ \o Cond(report.stats.total_vertices > MAX_VERTICES_LOD0,
                                          <<"exceeds LOD0 limit", report.stats.total_vertices,
                                            MAX_VERTICES_LOD0>>)]
  IN  ("valid" :> (Len(checked.issues) = 0 /\ Len(checked.warnings) = 0)) @@ checked

\* Lines 67-74: the file-level vertex check, then the valid flag.
overall_checks(report) ==
  LET checked == [report EXCEPT
                    !.issues = @ \o Cond(report.stats.total_vertices > MAX_VERTICES_LOD0,
                                          <<"exceeds LOD0 limit", report.stats.total_vertices,
                                            MAX_VERTICES_LOD0>>)]
  IN  ("valid" :> (Len(checked.issues) = 0)) @@ checked

\* The report validate_file(filepath) returns, bpy.data holding `data`.
validate_file(f, data) ==
  overall_checks(
    validate_materials(data.materials, 1,
      validate_objects(data.objects, 1, new_report(f))))

\* The report of each file when its own scene is the loaded one.
FileReports == [f \in Files |-> validate_file(f, BlendScenes[f])]

\* What bpy.data holds when `sc` is the loaded scene.
NoData == [objects |-> << >>, materials |-> << >>]
StartupData ==
  [objects |-> << MeshObject(<<"C","u","b","e">>, EXPECTED_SCALE, NoRotation, Quad),
                  [type |-> "LIGHT", name |-> <<"L","i","g","h","t">>],
                  [type |-> "CAMERA", name |-> <<"C","a","m","e","r","a">>] >>,
   materials |-> << [name |-> "Material", use_nodes |-> TRUE] >>]

scene_data(sc) ==
  IF sc.kind = "file" THEN BlendScenes[sc.file]
  ELSE IF sc.kind = "startup" THEN StartupData
  ELSE NoData

\* validate_models.main() up to the loop: return early without files, else
\* construct the ModelValidator.
StartValidate ==
  /\ Idle
  /\ idx' = 1
  /\ ops' = << >>
  /\ hist' = [hist EXCEPT !.start = now]
  /\ IF Len(blend_files) = 0
     THEN /\ pc' = "returned"
          /\ validator' = validator
     ELSE /\ pc' = "validate"
          /\ validator' = [results |-> << >>, total_issues |-> 0]
  /\ UNCHANGED <<blend_files, src_mtime, outputs, now, results, scene,
                 report_file, report_dir>>

\* validate_file walking bpy.data before the file is opened.
ValidateFile_before_open ==
  /\ pc = "validate"
  /\ idx <= Len(blend_files)
  /\ ops' = << Op("read_homefile", cur, NoFile), Op("open_mainfile", cur, NoFile) >>
  /\ scene' = LoadedScene(cur)
  /\ LET report == validate_file(cur, scene_data(scene))
     IN  validator' = [results |-> Append(validator.results, report),
                       total_issues |-> validator.total_issues + Len(report.issues)]
  /\ idx' = idx + 1
  /\ UNCHANGED <<blend_files, src_mtime, outputs, now, pc, results,
                 report_file, report_dir, hist>>

\* validate_file keeping the counters and object list of the previous call
\* instead of starting from a fresh report.
ValidateFile_accumulating ==
  /\ pc = "validate"
  /\ idx <= Len(blend_files)
  /\ ops' = << Op("read_homefile", cur, NoFile), Op("open_mainfile", cur, NoFile) >>
  /\ scene' = LoadedScene(cur)
  /\ LET n == Len(validator.results)
         start == IF n = 0 THEN new_report(cur)
                  ELSE [new_report(cur) EXCEPT !.stats = validator.results[n].stats,
                                               !.objects = validator.results[n].objects]
         data == scene_data(scene')
         report == overall_checks(
                     validate_materials(data.materials, 1,
                       validate_objects(data.objects, 1, start)))
     IN  validator' = [results |-> Append(validator.results, report),
                       total_issues |-> validator.total_issues + Len(report.issues)]
  /\ idx' = idx + 1
  /\ UNCHANGED <<blend_files, src_mtime, outputs, now, pc, results,
                 report_file, report_dir, hist>>

\* One iteration of main's loop: validator.validate_file(filepath). The two
\* bpy operators are not guarded: when one raises, the script ends there.
ValidateFile ==
  /\ pc = "validate"
  /\ idx <= Len(blend_files)
  /\ \/ /\ ops' = << Raised(Op("read_homefile", cur, NoFile)) >>   \* read_homefile raises
        /\ scene' \in {scene, EmptyScene}
        /\ pc' = "crashed"
        /\ UNCHANGED <<validator, idx>>
     \/ /\ ops' = << Op("read_homefile", cur, NoFile),         \* open_mainfile raises
                     Raised(Op("open_mainfile", cur, NoFile)) >>
        /\ scene' = EmptyScene
        /\ pc' = "crashed"
        /\ UNCHANGED <<validator, idx>>
     \/ /\ ops' = << Op("read_homefile", cur, NoFile), Op("open_mainfile", cur, NoFile) >>
        /\ scene' = LoadedScene(cur)
        /\ LET report == validate_file(cur, scene_data(scene'))
           IN  validator' = [results |-> Append(validator.results, report),
                             total_issues |-> validator.total_issues + Len(report.issues)]
        /\ idx' = idx + 1
        /\ pc' = pc
  /\ UNCHANGED <<blend_files, src_mtime, outputs, now, results,
                 report_file, report_dir, hist>>

\* A file name without the time of day: the same for every run of the day.
strftime_date_only(t) == 0

\* strftime('%Y%m%d_%H%M%S') of the clock: the second it is in.
strftime(t) == t \div TicksPerSecond

\* The summary dict of generate_report (lines 165-172).
validation_summary ==
  [timestamp     |-> now,
   total_files   |-> Len(validator.results),
   valid_files   |-> Cardinality({i \in 1..Len(validator.results) : validator.results[i].valid}),
   invalid_files |-> Cardinality({i \in 1..Len(validator.results) : ~validator.results[i].valid}),
   total_issues  |-> validator.total_issues,
   files         |-> validator.results]

\* validator.generate_report(): write REPORT_DIR/validation_<timestamp>.json.
GenerateReport ==
  /\ pc = "validate"
  /\ idx > Len(blend_files)
  /\ report_dir' = (strftime(now) :> validation_summary) @@ report_dir
  /\ pc' = "validated"
  /\ UNCHANGED <<blend_files, src_mtime, outputs, now, idx, results, scene, ops,
                 report_file, validator, hist>>

\* ------------------------------------------------------------ specifications
\* The batch exporter, run again and again over one models directory.
Next ==
  \/ Tick
  \/ TouchSource
  \/ StartExport
  \/ ExportSkip
  \/ ExportFile
  \/ Finalize

Spec == Init /\ [][Next]_vars

\* The validator, run again and again over one models directory.
TickReports == TickTo(MaxReportTime)

ValidatedEnumerations ==
  UNION {{s \in [1..k -> Files] : \A i, j \in 1..k : i # j => s[i] # s[j]} :
         k \in 0..MaxValidated}

InitValidate == InitWith(ValidatedEnumerations)

NextValidate ==
  \/ TickReports
  \/ StartValidate
  \/ ValidateFile
  \/ GenerateReport

SpecValidate == InitValidate /\ [][NextValidate]_vars

\* One ModelValidator handed any sequence of paths, a path possibly more than
\* once: validate_file is called once per element.
RevalidatedEnumerations == UNION {[1..k -> Files] : k \in 0..MaxValidated}

InitRevalidate == InitWith(RevalidatedEnumerations)

SpecRevalidate == InitRevalidate /\ [][NextValidate]_vars

\* Both scripts over a models directory of at most one file.
InitReports == InitWith({<< >>} \cup {<<f>> : f \in Files})

NextReports ==
  \/ TickReports
  \/ StartExport
  \/ ExportSkip
  \/ ExportFile
  \/ Finalize
  \/ StartValidate
  \/ ValidateFile
  \/ GenerateReport

SpecReports == InitReports /\ [][NextReports]_vars

\* ------------------------------------------------------------------ claims
\* The loop is at a file and this step is its iteration.
Iteration == InLoop /\ idx' = idx + 1

\* Some call of the latest iteration raised.
SomeCallRaised(calls) == \E k \in 1..Len(calls) : calls[k].raised

\* C1 as stated: a file is skipped exactly when its FBX exists and is as new
\* as the source or newer, equal timestamps included.
C1_TiesSkip ==
  [][Iteration =>
       LET p == export_path_of(cur) IN
       (results'.skipped = results.skipped + 1)
         <=> (p \in DOMAIN outputs /\ outputs[p] >= src_mtime[cur])]_vars

\* C1, amended: a file is skipped exactly when its FBX exists and is strictly
\* newer than the source; it is handed to the exporter exactly when the FBX is
\* missing or the source is as new as the FBX or newer (equal timestamps
\* re-export).
C1_StrictlyNewerSkips ==
  [][Iteration =>
       LET p == export_path_of(cur)
           newer == p \in DOMAIN outputs /\ outputs[p] > src_mtime[cur]
       IN  /\ ((results'.skipped = results.skipped + 1) <=> newer)
           /\ ((ops' # << >>) <=> ~newer)
           /\ ((ops' # << >>) <=> (p \notin DOMAIN outputs \/ src_mtime[cur] >= outputs[p]))]_vars

\* A run that follows a complete, untouched export has just exported a file
\* again: its FBX was exactly as old as the source.
C1_Witness ==
  /\ pc = "export"
  /\ idx > 1
  /\ hist.rerun = "all_exported"
  /\ results.exported >= 1
  /\ ops # << >>
  /\ ~SomeCallRaised(ops)

\* C2 as stated: a run after a run that exported every file, no source
\* changed in between, exports nothing and skips every file.
C2_RerunSkipsAll ==
  (pc = "done" /\ hist.rerun # "none")
    => (results.exported = 0 /\ results.skipped = Len(blend_files))

\* C2, amended: when the first run started strictly later than every source's
\* modification time and exported every file, a second run with no source
\* changed in between exports nothing, fails nothing, skips every file and
\* makes no call for the last of them.
C2_FreshRerunSkipsAll ==
  (pc = "done" /\ hist.rerun = "all_exported_fresh")
    => (/\ results.exported = 0
        /\ results.failed = 0
        /\ results.skipped = Len(blend_files)
        /\ results.files = << >>
        /\ ops = << >>)

\* Such a second run over a directory of two files has ended.
C2_Witness ==
  /\ pc = "done"
  /\ hist.rerun = "all_exported_fresh"
  /\ Len(blend_files) >= 2
  /\ results.skipped = Len(blend_files)

\* C3: an iteration in which clean_scene, open_mainfile, ensure_dir or the
\* exporter raises counts one failure, records no output path, and leaves the
\* loop at the next file; the loop is only ever left with every file
\* processed and the summary written.
C3_FailureIsolated ==
  [][/\ ((Iteration /\ SomeCallRaised(ops'))
          => (/\ results'.failed = results.failed + 1
              /\ results'.files = results.files
              /\ results'.exported = results.exported
              /\ results'.skipped = results.skipped
              /\ pc' = "export"))
      /\ ((InLoop /\ ops' # ops /\ SomeCallRaised(ops')) => idx' = idx + 1)
      /\ ((pc = "export" /\ pc' # "export")
          => (/\ idx > Len(blend_files)
              /\ pc' = "done"
              /\ report_file'.total_files = Len(blend_files)
              /\ report_file'.failed = results.failed))]_vars

\* A run has ended in which a file failed and a later file was exported.
C3_Witness ==
  /\ pc = "done"
  /\ results.failed >= 1
  /\ results.exported >= 1
  /\ ops # << >>
  /\ ~SomeCallRaised(ops)
  /\ report_file.failed = results.failed

\* C4: whenever the exporter is invoked for a file, the validator ran on the
\* loaded scene earlier in the same iteration.
C4_ValidatedBeforeExport ==
  \A k \in 1..Len(ops) :
    ops[k].op = "export_fbx"
      => \E j \in 1..(k - 1) : ops[j].op = "validate_model" /\ ops[j].file = ops[k].file

\* The second a clock value lies in.
SecondOf(t) == t \div TicksPerSecond

\* C5 as stated: a run that started in a later second than the one in which
\* an existing report was written (so the two runs did not start within the
\* same second) leaves that report present and unchanged, batch reports and
\* validation reports alike.
C5_NeverOverwrites ==
  [][/\ ((report_file # NoFile /\ SecondOf(report_file.timestamp) < SecondOf(hist.start))
          => report_file' = report_file)
     /\ \A st \in DOMAIN report_dir :
          SecondOf(report_dir[st].timestamp) < SecondOf(hist.start)
            => (st \in DOMAIN report_dir' /\ report_dir'[st] = report_dir[st])]_vars

\* C5, amended: a validation run writes validation_<second>.json for the
\* second in which it writes, so every validation report named for another
\* second stays present and unchanged, and no validation step touches the
\* batch report; the batch exporter writes the one path export_report.json,
\* which after each batch run holds that run's summary and no earlier one.
C5_ValidationReportsKept ==
  [][/\ \A st \in DOMAIN report_dir :
          st # SecondOf(now)
            => (st \in DOMAIN report_dir' /\ report_dir'[st] = report_dir[st])
     /\ (pc = "validate" => report_file' = report_file)
     /\ (DOMAIN report_dir' # DOMAIN report_dir
          => (pc = "validate" /\ DOMAIN report_dir' = DOMAIN report_dir \cup {SecondOf(now)}))
     /\ ((pc = "export" /\ pc' = "done")
          => (report_file'.timestamp = now /\ report_dir' = report_dir))]_vars

\* A validation run has written its report next to the report of an earlier
\* second, which still holds the earlier run's timestamp, and a batch report
\* exists as well.
C5_Witness ==
  /\ pc = "validated"
  /\ Cardinality(DOMAIN report_dir) >= 2
  /\ \E st \in DOMAIN report_dir :
       /\ st # SecondOf(now)
       /\ SecondOf(report_dir[st].timestamp) = st
       /\ report_dir[st].total_files = Len(blend_files)
  /\ report_file # NoFile

\* C6 as stated: a run over a models directory without source files ends with
\* a summary whose total_files is 0 and whose file list is empty.
C6_ZeroWorkSummary ==
  pc = "returned"
    => (report_file # NoFile /\ report_file.total_files = 0 /\ report_file.files = << >>)

\* C6, amended: over a models directory without source files every run
\* returns early: nothing is loaded or exported, nothing raises, the results
\* are never created, and no summary is written (export_report.json is left
\* as it was).
C6_EarlyReturn ==
  [][Len(blend_files) = 0
       => (/\ pc' \in {"idle", "returned"}
           /\ ((pc' # pc \/ hist' # hist) => pc' = "returned")
           /\ ops' = << >>
           /\ scene' = scene
           /\ outputs' = outputs
           /\ results' = NoResults
           /\ report_file' = report_file)]_vars

\* A run over the empty directory has returned.
C6_Witness ==
  /\ pc = "returned"
  /\ Len(blend_files) = 0
  /\ report_file = NoFile
  /\ results = NoResults

\* C7: an iteration on a file whose FBX exists and is strictly newer than the
\* source counts one skip and moves to the next file; it makes no call (no
\* scene clear, no load, no export) and leaves the loaded scene, the exported
\* and failed counts, the output-path list and the export directory unchanged.
C7_SkipTouchesNothing ==
  [][(/\ Iteration
      /\ export_path_of(cur) \in DOMAIN outputs
      /\ outputs[export_path_of(cur)] > src_mtime[cur])
       => (/\ results'.skipped = results.skipped + 1
           /\ results'.exported = results.exported
           /\ results'.failed = results.failed
           /\ results'.files = results.files
           /\ ops' = << >>
           /\ scene' = scene
           /\ outputs' = outputs
           /\ pc' = "export")]_vars

\* A file was skipped while the scene of a file exported earlier in the same
\* run is still the loaded one.
C7_Witness ==
  /\ pc = "export"
  /\ idx > 1
  /\ results.skipped >= 1
  /\ results.exported >= 1
  /\ ops = << >>
  /\ scene.kind = "file"
  /\ scene.file # blend_files[idx - 1]

\* The entries of the category table whose keyword occurs in the lower-cased
\* stem or the lower-cased parent directory name of a path.
MatchingEntries(filepath) ==
  {i \in 1..Len(ASSET_CATEGORIES) :
     \/ str_contains(str_lower(path_stem(filepath.name)), ASSET_CATEGORIES[i].key)
     \/ str_contains(str_lower(filepath.parent), ASSET_CATEGORIES[i].key)}

\* The matching entries of each file of the models directory.
MatchingTable == [f \in Files |-> MatchingEntries(BlendPaths[f])]

\* C8: the category under which a file is exported is the display name of the
\* earliest matching table entry, and "Misc" when no entry matches.
C8_FirstMatchWins ==
  \A k \in 1..Len(ops) :
    ops[k].op \in {"ensure_dir", "export_fbx"}
      => LET m == MatchingTable[ops[k].file]
             category == ops[k].path[1]
         IN  /\ (m = {}) => category = "Misc"
             /\ (m # {}) => \E i \in m : /\ \A j \in m : i <= j
                                         /\ category = ASSET_CATEGORIES[i].category

\* gear/Armor_UI.blend, whose stem matches "armor" and "ui", is exported
\* under Armor.
C8_Witness ==
  \E k \in 1..Len(ops) :
    /\ ops[k].op = "export_fbx"
    /\ Cardinality(MatchingTable[ops[k].file]) >= 2
    /\ BlendPaths[ops[k].file].parent = <<"g","e","a","r">>
    /\ ops[k].path[1] = "Armor"

\* The reports the validator holds.
Reports == IF "results" \in DOMAIN validator THEN validator.results ELSE << >>

\* The objects of a given type in the scene of file f.
ObjectsOfType(f, type) ==
  {i \in 1..Len(BlendScenes[f].objects) : BlendScenes[f].objects[i].type = type}

AllZero(stats) ==
  /\ stats.total_vertices = 0
  /\ stats.total_faces = 0
  /\ stats.mesh_objects = 0
  /\ stats.armatures = 0
  /\ stats.materials = 0

\* C9 as stated: the report of a file without mesh objects and without
\* armatures has no issue, no warning, all statistics zero and valid = true.
C9_NoMeshNoArmature ==
  \A i \in 1..Len(Reports) :
    LET r == Reports[i] IN
    (ObjectsOfType(r.path, "MESH") = {} /\ ObjectsOfType(r.path, "ARMATURE") = {})
      => (r.issues = << >> /\ r.warnings = << >> /\ AllZero(r.stats) /\ r.valid)

\* C9, amended: the report of a file without mesh objects, without armatures
\* and without materials has no issue, no warning, all statistics zero and
\* valid = true.
C9_NothingToCount ==
  \A i \in 1..Len(Reports) :
    LET r == Reports[i] IN
    (/\ ObjectsOfType(r.path, "MESH") = {}
     /\ ObjectsOfType(r.path, "ARMATURE") = {}
     /\ Len(BlendScenes[r.path].materials) = 0)
      => (r.issues = << >> /\ r.warnings = << >> /\ AllZero(r.stats) /\ r.valid)

\* The file holding only a light was validated, after another file.
C9_Witness ==
  \E i \in 2..Len(Reports) :
    /\ ObjectsOfType(Reports[i].path, "MESH") = {}
    /\ ObjectsOfType(Reports[i].path, "ARMATURE") = {}
    /\ Len(BlendScenes[Reports[i].path].materials) = 0
    /\ Len(BlendScenes[Reports[i].path].objects) > 0
    /\ AllZero(Reports[i].stats)

\* C10: in every report the validator returned, and in every report written
\* to a summary, valid is true exactly when the issue list is empty, whatever
\* the warnings.
C10_ValidIffNoIssues ==
  /\ \A i \in 1..Len(Reports) : Reports[i].valid <=> (Len(Reports[i].issues) = 0)
  /\ \A st \in DOMAIN report_dir :
       \A i \in 1..Len(report_dir[st].files) :
         report_dir[st].files[i].valid <=> (Len(report_dir[st].files[i].issues) = 0)

\* The validator holds a valid report with warnings and an invalid report.
C10_Witness ==
  /\ \E i \in 1..Len(Reports) :
       Reports[i].valid /\ Len(Reports[i].warnings) > 0 /\ Len(Reports[i].issues) = 0
  /\ \E i \in 1..Len(Reports) :
       ~Reports[i].valid /\ Len(Reports[i].issues) > 0

\* The sum of a sequence of numbers.
RECURSIVE SeqSum(_)
SeqSum(s) == IF s = << >> THEN 0 ELSE Head(s) + SeqSum(Tail(s))

\* The names of the mesh objects of a sequence of objects, in order.
RECURSIVE MeshNames(_)
MeshNames(objs) ==
  IF objs = << >> THEN << >>
  ELSE (IF Head(objs).type = "MESH" THEN << Head(objs).name >> ELSE << >>)
       \o MeshNames(Tail(objs))

\* Per file, the totals over the objects of its own scene.
SceneTotals ==
  [f \in Files |->
     LET objs == BlendScenes[f].objects
         mesh(i) == objs[i].type = "MESH"
     IN  [total_vertices |-> SeqSum([i \in 1..Len(objs) |->
                                       IF mesh(i) THEN objs[i].data.vertices ELSE 0]),
          total_faces    |-> SeqSum([i \in 1..Len(objs) |->
                                       IF mesh(i) THEN Len(objs[i].data.polygons) ELSE 0]),
          mesh_objects   |-> Cardinality(ObjectsOfType(f, "MESH")),
          armatures      |-> Cardinality(ObjectsOfType(f, "ARMATURE")),
          mesh_names     |-> MeshNames(objs)]]

\* C11: every report one validator holds carries the vertex, face, mesh and
\* armature totals of the scene of its own file, whatever was validated
\* before it (the same file included), and one object summary per mesh object
\* of that scene, in scene order.
C11_NoDoubleCounting ==
  \A i \in 1..Len(Reports) :
    LET r == Reports[i]
        e == SceneTotals[r.path]
    IN  /\ r.stats.total_vertices = e.total_vertices
        /\ r.stats.total_faces = e.total_faces
        /\ r.stats.mesh_objects = e.mesh_objects
        /\ r.stats.armatures = e.armatures
        /\ Len(r.objects) = e.mesh_objects
        /\ \A k \in 1..Len(r.objects) : r.objects[k].name = e.mesh_names[k]

\* One validator validated a rigged file with two meshes twice in a row and
\* returned the same report both times.
C11_Witness ==
  \E i \in 1..Len(Reports) : \E j \in (i + 1)..Len(Reports) :
    /\ Reports[i].path = Reports[j].path
    /\ Reports[i].stats.mesh_objects >= 2
    /\ Reports[i].stats.armatures >= 1
    /\ Reports[i].stats.total_vertices > 0
    /\ Reports[j] = Reports[i]

\* The bone-limit issues a report holds for the object called `name`.
BoneIssues(r, name) ==
  {k \in 1..Len(r.issues) :
     r.issues[k][1] = "bones exceeds UE5 limit" /\ r.issues[k][2] = name}

\* C12: in every report, an armature of the file's scene has a bone-limit
\* issue exactly when it has more than 256 bones, and then exactly one, which
\* names the object and its bone count; a rig of 256 bones has none and a rig
\* of 257 bones has one giving the count 257.
C12_BoneLimitStrict ==
  \A i \in 1..Len(Reports) :
    LET r == Reports[i]
        objs == BlendScenes[r.path].objects
    IN  \A a \in ObjectsOfType(r.path, "ARMATURE") :
          LET n == Len(objs[a].data.bones)
              found == BoneIssues(r, objs[a].name)
          IN  /\ (found # {}) <=> (n > 256)
              /\ Cardinality(found) <= 1
              /\ \A k \in found : r.issues[k][3] = n
              /\ (n = 256) => (found = {})
              /\ (n = 257) => (\E k \in found : r.issues[k][3] = 257)

\* The validator holds the report of a rig of exactly 256 bones, without a
\* bone-limit issue, and the report of a rig of 257 bones, with one.
C12_Witness ==
  /\ \E i \in 1..Len(Reports) :
       \E a \in ObjectsOfType(Reports[i].path, "ARMATURE") :
         LET obj == BlendScenes[Reports[i].path].objects[a] IN
         /\ Len(obj.data.bones) = 256
         /\ BoneIssues(Reports[i], obj.name) = {}
  /\ \E i \in 1..Len(Reports) :
       \E a \in ObjectsOfType(Reports[i].path, "ARMATURE") :
         LET obj == BlendScenes[Reports[i].path].objects[a] IN
         /\ Len(obj.data.bones) = 257
         /\ \E k \in BoneIssues(Reports[i], obj.name) : Reports[i].issues[k][3] = 257

\* The counters of a results dict or of a written report add up to n, and the
\* path list has one entry per exported file.
Accounted(r, n) ==
  /\ r.exported + r.failed + r.skipped = n
  /\ Len(r.files) = r.exported

\* The accounting between iterations and in the report just written.
Accounting ==
  /\ (pc = "export") =>
       /\ Accounted(results, idx - 1)
       /\ \A k \in 1..Len(results.files) :
            \E i \in 1..(idx - 1) : results.files[k] = export_path_of(blend_files[i])
  /\ (pc = "done") =>
       /\ report_file.total_files = Len(blend_files)
       /\ Accounted(report_file, report_file.total_files)
       /\ report_file.files = results.files

\* The latest iteration ran the exporter to the end without an exception.
ExportSucceeded(calls) ==
  /\ Len(calls) > 0
  /\ calls[Len(calls)].op = "export_fbx"
  /\ ~SomeCallRaised(calls)

\* C13: between iterations exported + failed + skipped is the number of
\* files processed and the path list has `exported` entries, all candidate
\* paths of processed files; an iteration adds one to exactly one counter,
\* and appends the file's candidate path exactly when its export succeeded;
\* the written report has exported + failed + skipped = total_files.
C13_OutcomeAccounting ==
  [][/\ Accounting'
     /\ Iteration =>
          LET ok == ExportSucceeded(ops') IN
          /\ results'.exported \in {results.exported, results.exported + 1}
          /\ results'.failed \in {results.failed, results.failed + 1}
          /\ results'.skipped \in {results.skipped, results.skipped + 1}
          /\ Accounted(results', idx)
          /\ (results'.exported = results.exported + 1) <=> ok
          /\ results'.files = IF ok THEN Append(results.files, export_path_of(cur))
                              ELSE results.files
          /\ ok => export_path_of(cur) \in DOMAIN outputs'
    ]_vars

\* A run over three files wrote a report counting one exported, one failed
\* and one skipped file.
C13_Witness ==
  /\ pc = "done"
  /\ report_file.total_files = 3
  /\ report_file.exported = 1
  /\ report_file.failed = 1
  /\ report_file.skipped = 1
  /\ Len(report_file.files) = 1
====
